---- MODULE Spec2Model ----
(***************************************************************************)
(* A model of datashape/discovery.py: the generality graph over scalar    *)
(* kinds, the unification strategies (unite_identical, unite_base,         *)
(* unite_merge_dimensions, do_one) and the recursive discover dispatch.    *)
(*                                                                         *)
(* Every Python value the functions handle is one record                   *)
(*     [dims, tag, name, args]                                             *)
(* so that TLC can compare any two of them:                                *)
(*   tag "ctype"  : a scalar kind (name is the kind), "option", "tuple",   *)
(*                  "record": the measures; dims is the list of leading    *)
(*                  dimensions (a count n for Fixed(n), Var for var);      *)
(*   tag "None"   : Python's None (a strategy's "no result");              *)
(*   tag "list"   : a raw Python list of shapes (args holds the elements); *)
(*   tag "raise"  : an exception leaving the function (name is its type).  *)
(* A DataShape holding only a measure compares and hashes equal to the     *)
(* measure itself, so both are the record with dims = <<>>.                *)
(***************************************************************************)
EXTENDS Integers, Sequences, FiniteSets, TLC

VARIABLES
    toposorted,      \* the cached topological order (module level, line 147)
    S,               \* _toposort: the nodes ready to be emitted
    incoming_edges,  \* _toposort: per node, the nodes still to be emitted before it
    pc,              \* "toposort" while the module is loading, then "ready"
    op,              \* the function last called
    seq,             \* the sample value last passed to discover
    dshapes,         \* the list of shapes last passed to a unifier
    result,          \* what the call returned (or the exception it raised)
    prev             \* the result of the call before a re-unification

vars == <<toposorted, S, incoming_edges, pc, op, seq, dshapes, result, prev>>

(***************************************************************************)
(* Bounds of the model.                                                    *)
(***************************************************************************)
\* the longest list of scalar shapes handed to a unifier
MaxLen == 3
\* the longest list of arbitrary shapes handed to a unifier
MaxShapes == 2
\* the largest fixed dimension count in an input shape
MaxCount == 2
\* the most rows (elements) of a sample sequence
MaxRows == 2
\* the most cells of one row (tuple arity, or keys of one mapping)
MaxArity == 2

(***************************************************************************)
(* Helpers on sequences and sets.                                          *)
(***************************************************************************)
Range(s) == {s[i] : i \in 1..Len(s)}

SeqsUpTo(X, n) == UNION {[1..k -> X] : k \in 0..n}

(***************************************************************************)
(* coretypes: the shapes.                                                  *)
(***************************************************************************)
Var == -1

CType(n) == [dims |-> <<>>, tag |-> "ctype", name |-> n, args |-> <<>>]

int32 == CType("int32")
int64 == CType("int64")
real == CType("float64")
float64 == real
bool_ == CType("bool")
complex128 == CType("complex128")
string == CType("string")
date_ == CType("date")
time_ == CType("time")
datetime_ == CType("datetime")
null == CType("null")

Arg(k, s) == [key |-> k, shape |-> s]

Option(s) == [dims |-> <<>>, tag |-> "option", name |-> "", args |-> <<Arg(0, s)>>]

Tuple(ts) ==
    [dims |-> <<>>, tag |-> "tuple", name |-> "",
     args |-> [i \in 1..Len(ts) |-> Arg(0, ts[i])]]

\* fields: a sequence of <<key, shape>> pairs, kept in the order given
Record(fields) ==
    [dims |-> <<>>, tag |-> "record", name |-> "",
     args |-> [i \in 1..Len(fields) |-> Arg(fields[i][1], fields[i][2])]]

(***************************************************************************)
(* Python values that are not shapes.                                      *)
(***************************************************************************)
None == [dims |-> <<>>, tag |-> "None", name |-> "", args |-> <<>>]

PyList(xs) ==
    [dims |-> <<>>, tag |-> "list", name |-> "",
     args |-> [i \in 1..Len(xs) |-> Arg(0, xs[i])]]

Raise(e) == [dims |-> <<>>, tag |-> "raise", name |-> e, args |-> <<>>]

IsRaise(x) == x.tag = "raise"

IsShape(x) == x.tag \in {"ctype", "option", "tuple", "record"}

\* Python truthiness of what a strategy returns: None is false, a shape has
\* len >= 1, a list is true when it is not empty
Truthy(x) ==
    CASE x.tag = "None" -> FALSE
      [] x.tag = "list" -> Len(x.args) > 0
      [] OTHER -> TRUE

\* n * ds (Mono.__rmul__, DataShape.__rmul__): one more leading dimension
Mul(n, ds) == [ds EXCEPT !.dims = <<n>> \o ds.dims]

\* isinstance(ds, DataShape) and isdimension(ds[0])
isdimension0(ds) == IsShape(ds) /\ Len(ds.dims) > 0

\* ds.subshape[0]: the shape with its leading dimension removed;
\* a list has no attribute subshape
subshape0(ds) ==
    IF ds.tag = "list" THEN Raise("AttributeError")
    ELSE IF Len(ds.dims) > 0 THEN [ds EXCEPT !.dims = Tail(ds.dims)]
    ELSE Raise("IndexError")

(***************************************************************************)
(* The generality graph (lines 124-147).                                   *)
(***************************************************************************)
\* (a, b) implies that b can turn into a
edge_list ==
    << <<string, int64>>,
       <<string, real>>,
       <<string, date_>>,
       <<string, datetime_>>,
       <<string, bool_>>,
       <<datetime_, date_>>,
       <<string, datetime_>>,
       <<int64, int32>>,
       <<real, int64>>,
       <<string, null>> >>

\* groupby(lambda x: x[1], edges), then the set of a per key: each specific
\* kind mapped to the set of kinds it can turn into
edges ==
    [k \in {e[2] : e \in Range(edge_list)} |->
        {e[1] : e \in {x \in Range(edge_list) : x[2] = k}}]

\* d.get(x, default) with an empty default
Get(d, x) == IF x \in DOMAIN d THEN d[x] ELSE {}

\* every kind the edge list names, in the order it first names them
declared ==
    LET flat == [i \in 1..(2 * Len(edge_list)) |->
                    edge_list[(i + 1) \div 2][IF i % 2 = 1 THEN 1 ELSE 2]]
    IN  SelectSeq([i \in 1..Len(flat) |->
                      IF \E j \in 1..(i - 1) : flat[j] = flat[i] THEN None ELSE flat[i]],
                  LAMBDA x : x # None)

Nodes == Range(declared)

IndexIn(s, x) == CHOOSE i \in 1..Len(s) : s[i] = x /\ \A j \in 1..(i - 1) : s[j] # x

(***************************************************************************)
(* internal_utils._toposort(edges): Kahn's algorithm. A node is emitted    *)
(* once nothing that turns into it is left; emitting n releases every      *)
(* kind n turns into.                                                      *)
(***************************************************************************)
\* reverse_dict(edges): per node, the nodes with an edge into it
reverse_dict(d) ==
    [m \in UNION {d[k] : k \in DOMAIN d} |-> {k \in DOMAIN d : m \in d[k]}]

KahnInitIncoming == reverse_dict(edges)

KahnInitS == {v \in DOMAIN edges : v \notin DOMAIN KahnInitIncoming}

\* incoming_edges after n is emitted
KahnIncoming(inc, n) ==
    [m \in DOMAIN inc |-> IF m \in Get(edges, n) THEN inc[m] \ {n} ELSE inc[m]]

\* S after n is popped and emitted
KahnS(s, inc, n) ==
    (s \ {n}) \cup {m \in Get(edges, n) : KahnIncoming(inc, n)[m] = {}}

\* the node a deterministic run pops: the one declared first
FirstDeclared(s) ==
    CHOOSE n \in s : \A m \in s : IndexIn(declared, n) <= IndexIn(declared, m)

RECURSIVE KahnRun(_, _, _)
KahnRun(L, s, inc) ==
    IF s = {} THEN L
    ELSE LET n == FirstDeclared(s)
         IN  KahnRun(Append(L, n), KahnS(s, inc, n), KahnIncoming(inc, n))

\* the topological order of a run that breaks ties by declaration order
_toposort == KahnRun(<<>>, KahnInitS, KahnInitIncoming)

\* the incoming_edges a finished run leaves
KahnDoneIncoming == [m \in DOMAIN KahnInitIncoming |-> {}]

(***************************************************************************)
(* descendents (lines 256-269).                                            *)
(***************************************************************************)
RECURSIVE descendentsLoop(_, _, _)
descendentsLoop(d, desc, children) ==
    IF children = {} THEN desc
    ELSE LET kids == (UNION {Get(d, kid) : kid \in desc}) \ desc
         IN  descendentsLoop(d, desc \cup kids, kids)

descendents(d, x) == descendentsLoop(d, {x}, Get(d, x))

(***************************************************************************)
(* lowest_common_dshape (lines 150-164).                                   *)
(***************************************************************************)
RECURSIVE Intersection(_)
Intersection(sets) ==
    IF Len(sets) = 1 THEN sets[1] ELSE sets[1] \cap Intersection(Tail(sets))

\* max in place of min: the most general common kind
MaxByIndex(common) ==
    IF \E x \in common : x \notin Range(toposorted) THEN Raise("ValueError")
    ELSE CHOOSE x \in common :
            \A y \in common : IndexIn(toposorted, x) >= IndexIn(toposorted, y)

\* min(common, key=toposorted.index): list.index raises ValueError for an
\* element the list does not hold
MinByIndex(common) ==
    IF \E x \in common : x \notin Range(toposorted) THEN Raise("ValueError")
    ELSE CHOOSE x \in common :
            \A y \in common : IndexIn(toposorted, x) <= IndexIn(toposorted, y)

lowest_common_dshape(ds) ==
    IF Len(ds) = 0 THEN Raise("TypeError")   \* set.intersection() of no sets
    ELSE LET common == Intersection([i \in 1..Len(ds) |-> descendents(edges, ds[i])])
         IN  IF common # {} THEN MinByIndex(common) ELSE None


(***************************************************************************)
(* The unification strategies (lines 118-238).                             *)
(***************************************************************************)
isnull(ds) == ds = null

\* unpack: a DataShape of one element is replaced by that element
unpack(ds) ==
    IF IsShape(ds) /\ Len(ds.dims) + 1 = 1 THEN [ds EXCEPT !.dims = <<>>] ELSE ds

\* the first exception in a list of results, None when there is none
FirstRaise(rs) ==
    IF \E i \in 1..Len(rs) : IsRaise(rs[i])
    THEN rs[CHOOSE i \in 1..Len(rs) : IsRaise(rs[i]) /\ \A j \in 1..(i - 1) : ~IsRaise(rs[j])]
    ELSE None

\* the shape itself, without the leading len(dshapes)
unite_identical_bare(ds) ==
    IF \E i \in 1..Len(ds) : ds[i].tag = "list" THEN Raise("TypeError")
    ELSE IF Cardinality(Range(ds)) = 1 THEN ds[1]
    ELSE None

\* set(dshapes) hashes every element: a raw list is unhashable
unite_identical(ds) ==
    IF \E i \in 1..Len(ds) : ds[i].tag = "list" THEN Raise("TypeError")
    ELSE IF Cardinality(Range(ds)) = 1 THEN Mul(Len(ds), ds[1])
    ELSE None

\* the nulls of the column forgotten: no Option around the base
unite_base_no_option(ds) ==
    LET un == [i \in 1..Len(ds) |-> unpack(ds[i])]
        nonnull == SelectSeq(un, LAMBDA x : ~isnull(x))
        base == lowest_common_dshape(nonnull)
    IN  IF IsRaise(base) THEN base
        ELSE IF Truthy(base) THEN Mul(Len(un), base)
        ELSE None

unite_base(ds) ==
    LET un == [i \in 1..Len(ds) |-> unpack(ds[i])]
        nulls == SelectSeq(un, isnull)
        nonnull == SelectSeq(un, LAMBDA x : ~isnull(x))
        base == lowest_common_dshape(nonnull)
    IN  IF IsRaise(base) THEN base
        ELSE IF Truthy(base)
             THEN Mul(Len(un), IF Len(nulls) > 0 THEN Option(base) ELSE base)
        ELSE None

\* a unifier that also widens the element shapes
merge_unite_base(ds) ==
    IF unite_identical(ds) # None THEN unite_identical(ds) ELSE unite_base(ds)

\* the unite parameter of unite_merge_dimensions, which no caller passes
merge_unite(ds) == unite_identical(ds)

\* the first count kept even when the counts differ
unite_merge_dimensions_first_dim(ds) ==
    LET n == Len(ds)
    IN  IF \A i \in 1..n : isdimension0(ds[i])
        THEN LET dims == [i \in 1..n |-> ds[i].dims[1]]
                 base == merge_unite([i \in 1..n |-> subshape0(ds[i])])
             IN  IF IsRaise(base) THEN base
                 ELSE IF Truthy(base) THEN Mul(n, Mul(dims[1], subshape0(base)))
                 ELSE None
        ELSE None

unite_merge_dimensions(ds) ==
    LET n == Len(ds)
    IN  IF \A i \in 1..n : isdimension0(ds[i])
        THEN LET dims == [i \in 1..n |-> ds[i].dims[1]]
                 base == merge_unite([i \in 1..n |-> subshape0(ds[i])])
             IN  IF IsRaise(base) THEN base
                 ELSE IF Truthy(base)
                      THEN IF Cardinality(Range(dims)) = 1
                           THEN Mul(n, Mul(dims[1], subshape0(base)))
                           ELSE Mul(n, Mul(Var, subshape0(base)))
                 ELSE None
        ELSE None

Call(f, inp) ==
    CASE f = "unite_identical" -> unite_identical(inp)
      [] f = "unite_base" -> unite_base(inp)
      [] f = "unite_merge_dimensions" -> unite_merge_dimensions(inp)
      [] f = "Tuple" -> Tuple(inp)

\* the last result returned when no strategy applies, not the input
RECURSIVE do_one_none(_, _)
do_one_none(funcs, inp) ==
    IF funcs = <<>> THEN None
    ELSE LET r == Call(Head(funcs), inp)
         IN  IF IsRaise(r) THEN r
             ELSE IF Truthy(r) THEN r
             ELSE do_one_none(Tail(funcs), inp)

\* do_one(funcs)(inp): the first truthy result, else the input itself
RECURSIVE do_one(_, _)
do_one(funcs, inp) ==
    IF funcs = <<>> THEN PyList(inp)
    ELSE LET r == Call(Head(funcs), inp)
         IN  IF IsRaise(r) THEN r
             ELSE IF Truthy(r) THEN r
             ELSE do_one(Tail(funcs), inp)

\* line 89: the unifier of a column
unite_funcs == <<"unite_identical", "unite_base", "unite_merge_dimensions">>

unite(inp) == do_one(unite_funcs, inp)

\* the column results and the elements widened too
unite_types_funcs_base ==
    <<"unite_identical", "unite_base", "unite_merge_dimensions", "Tuple">>

\* lines 97 and 115: the unifier of the column results and of the elements
unite_types_funcs == <<"unite_identical", "unite_merge_dimensions", "Tuple">>

\* always the heterogeneous Tuple
unite_types_tuple(inp) == Tuple(inp)

unite_types(inp) == do_one(unite_types_funcs, inp)

(***************************************************************************)
(* Sample values: [type, text, items]. A scalar has no items; a tuple or   *)
(* list holds its elements in order (key 0); a dict holds its pairs in     *)
(* insertion order, keys distinct. A key is a number standing for a        *)
(* string, the order of the numbers for the order of the strings.          *)
(***************************************************************************)
Leaf(t, x) == [type |-> t, text |-> x, items |-> <<>>]

PySeq(t, xs) ==
    [type |-> t, text |-> "", items |-> [i \in 1..Len(xs) |-> [key |-> 0, val |-> xs[i]]]]

PyDict(kvs) ==
    [type |-> "dict", text |-> "",
     items |-> [i \in 1..Len(kvs) |-> [key |-> kvs[i][1], val |-> kvs[i][2]]]]

Vals(v) == [i \in 1..Len(v.items) |-> v.items[i].val]

Keys(v) == {v.items[i].key : i \in 1..Len(v.items)}

Lookup(v, k) == v.items[CHOOSE i \in 1..Len(v.items) : v.items[i].key = k].val

\* sorted(keys)
RECURSIVE sorted(_)
sorted(ks) ==
    IF ks = {} THEN <<>>
    ELSE LET m == CHOOSE x \in ks : \A y \in ks : x <= y
         IN  <<m>> \o sorted(ks \ {m})

(***************************************************************************)
(* The string coercions (lines 65-84), on the literals the model uses.     *)
(***************************************************************************)
IntLiterals == {"42"}
FloatLiterals == IntLiterals \cup {"3.14"}
bools == {"False", "false", "True", "true"}
DateLiterals == {"2014-01-01"}
DateTimeLiterals == {"2014-01-01 12:30"}

string_coercions == <<"int", "float", "bools", "dateparse">>

\* f(s): the value parsed, or the exception the parser raises
Coerce(f, s) ==
    CASE f = "int" -> IF s \in IntLiterals THEN Leaf("int", s) ELSE Raise("ValueError")
      [] f = "float" -> IF s \in FloatLiterals THEN Leaf("float", s) ELSE Raise("ValueError")
      [] f = "bools" -> IF s \in bools THEN Leaf("bool", s) ELSE Raise("KeyError")
      [] f = "dateparse" ->
            IF s \in DateLiterals THEN Leaf("datetime", "midnight")
            ELSE IF s \in DateTimeLiterals THEN Leaf("datetime", "12:30")
            ELSE Raise("ValueError")

\* dt.time() is false at midnight (the Python the code was written for, before
\* 3.5); dt.date() is always true
TimeTruthy(dt) == dt.text # "midnight"

DateTruthy(dt) == TRUE

IsRaisedValue(x) == "tag" \in DOMAIN x

(***************************************************************************)
(* discover (lines 20-115 and 241-243).                                    *)
(***************************************************************************)
RECURSIVE discover(_)
RECURSIVE discover_str(_, _)
RECURSIVE column_type(_)

discover_str(fs, s) ==
    IF fs = <<>> THEN string
    ELSE LET x == Coerce(Head(fs), s)
         IN  IF IsRaisedValue(x) THEN discover_str(Tail(fs), s)
             ELSE LET r == discover(x)
                  IN  IF IsRaise(r) THEN discover_str(Tail(fs), s) ELSE r

\* unite([discover(dshape) for dshape in column]).subshape[0]
column_type(column) ==
    LET shapes == [i \in 1..Len(column) |-> discover(column[i])]
        fr == FirstRaise(shapes)
    IN  IF fr # None THEN fr
        ELSE LET u == unite(shapes)
             IN  IF IsRaise(u) THEN u ELSE subshape0(u)

IsSeq(v) == v.type \in {"tuple", "list"}

discover_seq(v) ==
    LET items == Vals(v)
        n == Len(items)
        \* the column fast path of tuples: N * unite(types), or the exception
        \* that ends the try block
        rows == n > 0 /\ (\A i \in 1..n : IsSeq(items[i]))
                /\ Cardinality({Len(items[i].items) : i \in 1..n}) = 1
        columns == [j \in 1..Len(items[1].items) |->
                        [i \in 1..n |-> items[i].items[j].val]]
        types == [j \in 1..Len(columns) |-> column_type(columns[j])]
        rowsFail == FirstRaise(types)
        \* the column fast path of records
        dicts == n > 0 /\ (\A i \in 1..n : items[i].type = "dict")
                 /\ Cardinality({Keys(items[i]) : i \in 1..n}) = 1
        keys == sorted(Keys(items[1]))
        kcolumns == [j \in 1..Len(keys) |-> [i \in 1..n |-> Lookup(items[i], keys[j])]]
        ktypes == [j \in 1..Len(keys) |-> column_type(kcolumns[j])]
        dictsFail == FirstRaise(ktypes)
        \* the general path
        etypes == [i \in 1..n |-> discover(items[i])]
        general == IF FirstRaise(etypes) # None THEN FirstRaise(etypes)
                   ELSE unite_types(etypes)
    IN  IF rows /\ rowsFail = None THEN Mul(n, unite_types(types))
        ELSE IF rows /\ rowsFail # Raise("AttributeError") THEN rowsFail
        ELSE IF dicts /\ dictsFail = None
             THEN Mul(n, Record([j \in 1..Len(keys) |-> <<keys[j], ktypes[j]>>]))
        ELSE IF dicts /\ dictsFail # Raise("AttributeError") THEN dictsFail
        ELSE general

\* the fields in insertion order
discover_dict_unsorted(d) ==
    LET types == [j \in 1..Len(d.items) |-> discover(d.items[j].val)]
    IN  IF FirstRaise(types) # None THEN FirstRaise(types)
        ELSE Record([j \in 1..Len(d.items) |-> <<d.items[j].key, types[j]>>])

discover_dict(d) ==
    LET keys == sorted(Keys(d))
        types == [j \in 1..Len(keys) |-> discover(Lookup(d, keys[j]))]
    IN  IF FirstRaise(types) # None THEN FirstRaise(types)
        ELSE Record([j \in 1..Len(keys) |-> <<keys[j], types[j]>>])

discover(v) ==
    CASE v.type = "int" -> int64
      [] v.type = "float" -> float64
      [] v.type = "bool" -> bool_
      [] v.type = "complex" -> complex128
      [] v.type = "datetime" ->
            IF TimeTruthy(v) /\ DateTruthy(v) THEN datetime_
            ELSE IF DateTruthy(v) THEN date_
            ELSE time_
      [] v.type = "date" -> date_
      [] v.type = "time" -> time_
      [] v.type = "NoneType" -> null
      [] v.type = "str" -> IF v.text = "" THEN null ELSE discover_str(string_coercions, v.text)
      [] v.type \in {"tuple", "list"} -> discover_seq(v)
      [] v.type = "dict" -> discover_dict(v)

(***************************************************************************)
(* The inputs of the unifiers.                                             *)
(***************************************************************************)
ScalarShapes ==
    {int32, int64, real, bool_, complex128, string, date_, time_, datetime_, null}

Counts == {Var} \cup (1..MaxCount)

\* count * kind, and count * (count * int64)
DimShapes ==
    {Mul(c, k) : c \in Counts, k \in {int32, int64}}
    \cup {Mul(c, Mul(d, int64)) : c \in Counts, d \in Counts}

InputShapes ==
    DimShapes \cup {int64, null, Tuple(<<int64, string>>), Record(<< <<1, int64>> >>)}

NoValue == Leaf("", "")

(***************************************************************************)
(* The state machine. Loading the module runs _toposort once and caches    *)
(* its order; every later call reads it.                                   *)
(***************************************************************************)
Idle ==
    /\ op = ""
    /\ seq = NoValue
    /\ dshapes = <<>>
    /\ result = None
    /\ prev = None

\* the module as loaded, the order computed by _toposort
Init ==
    /\ toposorted = _toposort
    /\ S = {}
    /\ incoming_edges = KahnDoneIncoming
    /\ pc = "ready"
    /\ Idle

\* a call is made from the idle state: each behaviour follows one call and what
\* is done with its result
CanCall == pc = "ready" /\ op = ""

\* a unifier is about to be called with a list of scalar shapes
PassScalars ==
    /\ CanCall
    /\ \E k \in 1..MaxLen : \E ds \in [1..k -> ScalarShapes] : dshapes' = ds
    /\ pc' = "call"
    /\ UNCHANGED <<toposorted, S, incoming_edges, op, seq, result, prev>>

\* a unifier is about to be called with a list of shapes with dimensions,
\* tuples and records among them
PassShapes ==
    /\ CanCall
    /\ \E k \in 1..MaxShapes : \E ds \in [1..k -> InputShapes] : dshapes' = ds
    /\ pc' = "call"
    /\ UNCHANGED <<toposorted, S, incoming_edges, op, seq, result, prev>>

Calling == pc = "call" /\ op = ""

CallUnite ==
    /\ Calling
    /\ op' = "unite"
    /\ result' = unite(dshapes)
    /\ pc' = "ready"
    /\ UNCHANGED <<toposorted, S, incoming_edges, seq, dshapes, prev>>

CallUniteTypes ==
    /\ Calling
    /\ op' = "unite_types"
    /\ result' = unite_types(dshapes)
    /\ pc' = "ready"
    /\ UNCHANGED <<toposorted, S, incoming_edges, seq, dshapes, prev>>

CallUniteIdentical ==
    /\ Calling
    /\ op' = "unite_identical"
    /\ result' = unite_identical(dshapes)
    /\ pc' = "ready"
    /\ UNCHANGED <<toposorted, S, incoming_edges, seq, dshapes, prev>>

CallUniteBase ==
    /\ Calling
    /\ op' = "unite_base"
    /\ result' = unite_base(dshapes)
    /\ pc' = "ready"
    /\ UNCHANGED <<toposorted, S, incoming_edges, seq, dshapes, prev>>

CallUniteMergeDimensions ==
    /\ Calling
    /\ op' = "unite_merge_dimensions"
    /\ result' = unite_merge_dimensions(dshapes)
    /\ pc' = "ready"
    /\ UNCHANGED <<toposorted, S, incoming_edges, seq, dshapes, prev>>

\* the caller hands what a unifier returned back to the same unifier, as the
\* only element of a list
Reunite ==
    /\ pc = "ready"
    /\ op \in {"unite", "unite_types"}
    /\ ~IsRaise(result)
    /\ op' = IF op = "unite" THEN "reunite" ELSE "reunite_types"
    /\ dshapes' = <<result>>
    /\ prev' = result
    /\ result' = IF op = "unite" THEN unite(<<result>>) ELSE unite_types(<<result>>)
    /\ UNCHANGED <<toposorted, S, incoming_edges, pc, seq>>

NextUnify ==
    \/ PassScalars
    \/ PassShapes
    \/ CallUnite
    \/ CallUniteTypes
    \/ CallUniteIdentical
    \/ CallUniteBase
    \/ CallUniteMergeDimensions
    \/ Reunite

SpecUnify == Init /\ [][NextUnify]_vars

(***************************************************************************)
(* Loading the module, one step of _toposort at a time: S.pop() takes any  *)
(* ready node, so every topological order of the graph can be the cached   *)
(* one.                                                                    *)
(***************************************************************************)
InitGraph ==
    /\ toposorted = <<>>
    /\ S = KahnInitS
    /\ incoming_edges = KahnInitIncoming
    /\ pc = "toposort"
    /\ Idle

ToposortPop ==
    /\ pc = "toposort"
    /\ \E n \in S :
        /\ toposorted' = Append(toposorted, n)
        /\ S' = KahnS(S, incoming_edges, n)
        /\ incoming_edges' = KahnIncoming(incoming_edges, n)
    /\ UNCHANGED <<pc, op, seq, dshapes, result, prev>>

\* S is empty and no node is left waiting (else "Input has cycles")
ToposortReturn ==
    /\ pc = "toposort"
    /\ S = {}
    /\ \A m \in DOMAIN incoming_edges : incoming_edges[m] = {}
    /\ pc' = "ready"
    /\ UNCHANGED <<toposorted, S, incoming_edges, op, seq, dshapes, result, prev>>

\* the kinds of a set, in declaration order
RECURSIVE SetToSeq(_)
SetToSeq(K) ==
    IF K = {} THEN <<>>
    ELSE LET k == FirstDeclared(K) IN <<k>> \o SetToSeq(K \ {k})

KindSets == (SUBSET Nodes) \ {{}}

CallLowestCommonDshape ==
    /\ CanCall
    /\ \E K \in KindSets :
        /\ op' = "lowest_common_dshape"
        /\ dshapes' = SetToSeq(K)
        /\ result' = lowest_common_dshape(SetToSeq(K))
    /\ UNCHANGED <<toposorted, S, incoming_edges, pc, seq, prev>>

NextGraph ==
    \/ ToposortPop
    \/ ToposortReturn
    \/ CallLowestCommonDshape

SpecGraph == InitGraph /\ [][NextGraph]_vars

(***************************************************************************)
(* Calls of discover.                                                      *)
(***************************************************************************)
Literals == {"", "42", "3.14", "true", "False", "2014-01-01", "2014-01-01 12:30", "hello"}

Int1 == Leaf("int", "1")
Float1 == Leaf("float", "1.0")
None_ == Leaf("NoneType", "")
Complex1 == Leaf("complex", "1j")

Scalars ==
    {Int1, Float1, Leaf("bool", "True"), Complex1, Leaf("date", ""), Leaf("time", ""),
     Leaf("datetime", "midnight"), Leaf("datetime", "12:30"), None_}
    \cup {Leaf("str", x) : x \in Literals}

\* the elements of a flat sequence: scalars, short lists (so that elements
\* differ in kind or in length) and two mappings of different keys
FlatCells ==
    {Int1, Float1, Leaf("bool", "True"), Complex1, Leaf("date", ""), Leaf("time", ""),
     Leaf("datetime", "12:30"), None_, Leaf("str", ""), Leaf("str", "42"),
     Leaf("str", "hello")}
    \cup {PySeq("list", xs) : xs \in SeqsUpTo({Int1, None_}, MaxArity)}
    \cup {PyDict(<< <<1, Int1>> >>), PyDict(<< <<2, None_>> >>)}

\* the cells of a table of rows, and the values of the mappings in a list:
\* a kind of the graph, the null marker and a kind outside the graph
Cells == {Int1, None_, Complex1}

NestedCells == {Int1, PySeq("list", <<Int1>>), PySeq("list", <<Int1, Int1>>)}

KeySets == SUBSET (1..MaxArity)

\* the orders in which the keys of a mapping were inserted
Ascending(K) == sorted(K)

Descending(K) == LET a == sorted(K) IN [i \in 1..Len(a) |-> a[Len(a) + 1 - i]]

Orders(K) ==
    {p \in [1..Cardinality(K) -> K] : \A i, j \in 1..Cardinality(K) : p[i] = p[j] => i = j}

\* the mapping of the keys of o to their values under f, inserted in the order o
Mapping(o, f) == PyDict([i \in 1..Len(o) |-> <<o[i], f[o[i]]>>])

\* discover is called with a value of one of the families
CallWithScalar ==
    /\ CanCall
    /\ \E v \in Scalars : seq' = v
    /\ op' = "discover"
    /\ pc' = "call"
    /\ UNCHANGED <<toposorted, S, incoming_edges, dshapes, result, prev>>

\* a flat sequence
CallWithSequence ==
    /\ CanCall
    /\ \E n \in 0..MaxRows : \E xs \in [1..n -> FlatCells] : seq' = PySeq("list", xs)
    /\ op' = "discover"
    /\ pc' = "call"
    /\ UNCHANGED <<toposorted, S, incoming_edges, dshapes, result, prev>>

\* n rows of the same arity a
CallWithRows ==
    /\ CanCall
    /\ \E n \in 1..MaxRows, a \in 0..MaxArity :
        \E rows \in [1..n -> [1..a -> Cells]] :
            seq' = PySeq("list", [i \in 1..n |-> PySeq("tuple", rows[i])])
    /\ op' = "discover"
    /\ pc' = "call"
    /\ UNCHANGED <<toposorted, S, incoming_edges, dshapes, result, prev>>

\* n rows of the same arity a whose cells are lists of one or two integers,
\* or an integer
CallWithNestedRows ==
    /\ CanCall
    /\ \E n \in 1..MaxRows, a \in 1..MaxArity :
        \E rows \in [1..n -> [1..a -> NestedCells]] :
            seq' = PySeq("tuple", [i \in 1..n |-> PySeq("list", rows[i])])
    /\ op' = "discover"
    /\ pc' = "call"
    /\ UNCHANGED <<toposorted, S, incoming_edges, dshapes, result, prev>>

\* n rows of one cell each, of any scalar
CallWithColumn ==
    /\ CanCall
    /\ \E n \in 1..MaxRows : \E col \in [1..n -> Scalars] :
            seq' = PySeq("list", [i \in 1..n |-> PySeq("tuple", <<col[i]>>)])
    /\ op' = "discover"
    /\ pc' = "call"
    /\ UNCHANGED <<toposorted, S, incoming_edges, dshapes, result, prev>>

\* one mapping: every key set, every insertion order
CallWithMapping ==
    /\ CanCall
    /\ \E K \in KeySets : \E o \in Orders(K), f \in [K -> Cells \cup {Float1}] :
            seq' = Mapping(o, f)
    /\ op' = "discover"
    /\ pc' = "call"
    /\ UNCHANGED <<toposorted, S, incoming_edges, dshapes, result, prev>>

\* n mappings of one key set K; the first is inserted in the order first, the
\* others in the order others
CallWithRecords ==
    /\ CanCall
    /\ \E n \in 1..MaxRows, K \in KeySets \ {{}} :
        \E first \in {Ascending(K), Descending(K)},
           others \in {Ascending(K), Descending(K)},
           fs \in [1..n -> [K -> Cells]] :
            seq' = PySeq("list", [i \in 1..n |->
                            Mapping(IF i = 1 THEN first ELSE others, fs[i])])
    /\ op' = "discover"
    /\ pc' = "call"
    /\ UNCHANGED <<toposorted, S, incoming_edges, dshapes, result, prev>>

\* the call runs to its end: it returns a shape or an exception leaves it
Discover ==
    /\ pc = "call"
    /\ op = "discover"
    /\ result' = discover(seq)
    /\ pc' = "ready"
    /\ UNCHANGED <<toposorted, S, incoming_edges, op, seq, dshapes, prev>>

NextDiscover ==
    \/ CallWithScalar
    \/ CallWithSequence
    \/ CallWithRows
    \/ CallWithNestedRows
    \/ CallWithColumn
    \/ CallWithMapping
    \/ CallWithRecords
    \/ Discover

SpecDiscover == Init /\ [][NextDiscover]_vars

(***************************************************************************)
(* The properties. Returned(f) holds once a call of f has returned.        *)
(***************************************************************************)
Returned(f) == pc = "ready" /\ op = f

\* a can be widened into b along at most n promotion edges of the edge list
RECURSIVE WidensWithin(_, _, _)
WidensWithin(a, b, n) ==
    \/ a = b
    \/ /\ n > 0
       /\ \E i \in 1..Len(edge_list) :
            edge_list[i][2] = a /\ WidensWithin(edge_list[i][1], b, n - 1)

CanWiden(a, b) == WidensWithin(a, b, Len(edge_list))

\* the kinds of the graph every member of M can be widened into
Targets(M) == {t \in Nodes : \A m \in M : CanWiden(m, t)}

\* the most specific members of a set of kinds
Least(T) == {l \in T : \A u \in T : CanWiden(l, u)}

NonNull(ds) == {ds[i] : i \in 1..Len(ds)} \ {null}

AllDims(ds) == \A i \in 1..Len(ds) : isdimension0(ds[i])

ElementsOf(ds) == [i \in 1..Len(ds) |-> subshape0(ds[i])]

CountsOf(ds) == [i \in 1..Len(ds) |-> ds[i].dims[1]]

\* the count of the merged dimension: the common count, else var
MergedCount(ds) ==
    IF Cardinality(Range(CountsOf(ds))) = 1 THEN ds[1].dims[1] ELSE Var

\* x is the heterogeneous Tuple of the shapes ds, position by position
IsTupleOf(x, ds) ==
    /\ x.tag = "tuple"
    /\ x.dims = <<>>
    /\ Len(x.args) = Len(ds)
    /\ \A i \in 1..Len(ds) : x.args[i].shape = ds[i]

\* identical-unification, base-unification and dimension-merge all report
\* "no result" for the shapes passed
AllFail ==
    /\ unite_identical(dshapes) = None
    /\ unite_base(dshapes) = None
    /\ unite_merge_dimensions(dshapes) = None

\* ts unified by identical-unification, then dimension-merge over equal
\* elements, then the heterogeneous Tuple, spelled out case by case
Generalized(ts) ==
    IF Cardinality(Range(ts)) = 1 THEN Mul(Len(ts), ts[1])
    ELSE IF Len(ts) > 0 /\ AllDims(ts) /\ Cardinality(Range(ElementsOf(ts))) = 1
         THEN Mul(Len(ts), Mul(MergedCount(ts), subshape0(ts[1])))
    ELSE Tuple(ts)

\* the sample is a non-empty sequence of sequences of one arity
IsRows(v) ==
    /\ IsSeq(v)
    /\ Len(v.items) > 0
    /\ \A i \in 1..Len(v.items) : IsSeq(v.items[i].val)
    /\ Cardinality({Len(v.items[i].val.items) : i \in 1..Len(v.items)}) = 1

\* the sample is a non-empty sequence of mappings of one key set
IsRecords(v) ==
    /\ IsSeq(v)
    /\ Len(v.items) > 0
    /\ \A i \in 1..Len(v.items) : v.items[i].val.type = "dict"
    /\ Cardinality({Keys(v.items[i].val) : i \in 1..Len(v.items)}) = 1

\* the unified shape of each positional column of a table of rows
ColumnResults(v) ==
    [j \in 1..Len(v.items[1].val.items) |->
        column_type([i \in 1..Len(v.items) |-> v.items[i].val.items[j].val])]

\* the unified shape of the column of values at key k
KeyColumn(v, k) ==
    column_type([i \in 1..Len(v.items) |-> Lookup(v.items[i].val, k)])

AllShapes(ts) == \A i \in 1..Len(ts) : IsShape(ts[i])

ElementShapes(v) == [i \in 1..Len(v.items) |-> discover(v.items[i].val)]

\* every Record inside a shape lists its keys in strictly ascending order
RECURSIVE RecordsSorted(_)
RecordsSorted(x) ==
    /\ x.tag = "record" =>
        \A i \in 1..(Len(x.args) - 1) : x.args[i].key < x.args[i + 1].key
    /\ \A i \in 1..Len(x.args) : RecordsSorted(x.args[i].shape)

\* the sample with the pairs of every mapping re-inserted in ascending key order
RECURSIVE Canon(_)
Canon(v) ==
    IF v.type = "dict"
    THEN PyDict([j \in 1..Len(v.items) |->
                    <<sorted(Keys(v))[j], Canon(Lookup(v, sorted(Keys(v))[j]))>>])
    ELSE IF IsSeq(v) THEN PySeq(v.type, [i \in 1..Len(v.items) |-> Canon(v.items[i].val)])
    ELSE v

\* C1: discover is total: every call returns a shape and never raises, also
\* for rows whose column mixes the null marker with a kind outside the graph.
C1_DiscoverTotal == Returned("discover") => IsShape(result)

\* C2: base-unification of scalar shapes that are not all equal, with a
\* non-null member and a common promotion target in the graph, returns N * L,
\* or N * Option(L) when a member is Null, L being the most specific kind
\* every non-null member can be widened into.
C2_Widening ==
    (/\ pc = "ready"
     /\ op \in {"unite", "unite_base"}
     /\ \A i \in 1..Len(dshapes) : dshapes[i] \in ScalarShapes
     /\ Cardinality(Range(dshapes)) > 1
     /\ NonNull(dshapes) # {}
     /\ Targets(NonNull(dshapes)) # {})
    => \E L \in Least(Targets(NonNull(dshapes))) :
        /\ Least(Targets(NonNull(dshapes))) = {L}
        /\ result = Mul(Len(dshapes),
                        IF null \in Range(dshapes) THEN Option(L) ELSE L)

C2_Witness ==
    /\ Returned("unite")
    /\ dshapes = <<int64, int64, null>>
    /\ result = Mul(3, Option(int64))

\* C3 as stated: when identical-unification, base-unification and
\* dimension-merge all fail, unify returns the heterogeneous Tuple of the N
\* input shapes, never the raw input sequence.
C3_FallbackIsTuple ==
    (Returned("unite") /\ AllFail) => IsTupleOf(result, dshapes)

\* C3 amended: when the three strategies all report no result, the unifier of
\* a column (identical, base, dimension-merge) returns the raw input list,
\* and the unifier of column results and elements (identical, dimension-merge,
\* Tuple) returns the heterogeneous Tuple of the N inputs, position by position.
C3_FallbackAmended ==
    /\ (Returned("unite") /\ AllFail) => result = PyList(dshapes)
    /\ (Returned("unite_types") /\ AllFail) => IsTupleOf(result, dshapes)

C3_Witness ==
    /\ Returned("unite")
    /\ dshapes = <<bool_, complex128>>
    /\ result = PyList(<<bool_, complex128>>)

\* C4 as stated: a sequence that takes neither column fast path discovers as
\* N * U, U the full unification (identical, base, dimension-merge) of the
\* element shapes, and as N * Tuple(elementShapes) only when all three fail.
C4_GeneralFullUnifier ==
    (/\ Returned("discover")
     /\ IsSeq(seq) /\ ~IsRows(seq) /\ ~IsRecords(seq)
     /\ Len(seq.items) > 0
     /\ AllShapes(ElementShapes(seq)))
    => result = IF unite(ElementShapes(seq)).tag = "list"
                THEN Mul(Len(seq.items), Tuple(ElementShapes(seq)))
                ELSE unite(ElementShapes(seq))

\* C4 amended: a sequence that takes neither column fast path discovers as
\* N * T when its N element shapes all equal T, as N * (k * E) or
\* N * (var * E) when they are all dimensions over one element shape E, and
\* otherwise as Tuple(elementShapes) with no leading N and no widening.
C4_GeneralAmended ==
    (/\ Returned("discover")
     /\ IsSeq(seq) /\ ~IsRows(seq) /\ ~IsRecords(seq)
     /\ AllShapes(ElementShapes(seq)))
    => result = Generalized(ElementShapes(seq))

C4_Witness ==
    /\ Returned("discover")
    /\ seq = PySeq("list", <<Int1, Float1>>)
    /\ result = Tuple(<<int64, real>>)

\* C5 as stated: N tuples of one arity A whose columns all unify cleanly to
\* T_1..T_A discover as N * Tuple(T_1, ..., T_A), also when the T_i are equal.
C5_RowsAreTuple ==
    (Returned("discover") /\ IsRows(seq) /\ AllShapes(ColumnResults(seq)))
    => result = Mul(Len(seq.items), Tuple(ColumnResults(seq)))

\* C5 amended: N tuples of one arity A whose columns all unify cleanly to
\* T_1..T_A discover as N * R: R is A * T when every T_i equals T, A * (k * E)
\* or A * (var * E) when the T_i are dimensions over one element shape E, and
\* Tuple(T_1, ..., T_A) otherwise.
C5_RowsAmended ==
    (Returned("discover") /\ IsRows(seq) /\ AllShapes(ColumnResults(seq)))
    => result = Mul(Len(seq.items), Generalized(ColumnResults(seq)))

C5_Witness ==
    /\ Returned("discover")
    /\ seq = PySeq("list", <<PySeq("tuple", <<Int1, Int1>>), PySeq("tuple", <<Int1, Int1>>)>>)
    /\ result = Mul(2, Mul(2, int64))

\* C6: dimension-merge of N dimension shapes count_i * E over one element
\* shape E returns N * (k * E) when every count is k and N * (var * E) when
\* two counts differ, E unchanged.
C6_RaggedMerge ==
    (/\ pc = "ready"
     /\ op \in {"unite_merge_dimensions", "unite"}
     /\ AllDims(dshapes)
     /\ Cardinality(Range(ElementsOf(dshapes))) = 1)
    => result = Mul(Len(dshapes),
                    Mul(IF \A i \in 1..Len(dshapes) : dshapes[i].dims[1] = dshapes[1].dims[1]
                        THEN dshapes[1].dims[1] ELSE Var,
                        [dshapes[1] EXCEPT !.dims = Tail(dshapes[1].dims)]))

C6_Witness ==
    /\ Returned("unite_merge_dimensions")
    /\ dshapes = <<Mul(1, int64), Mul(2, int64)>>
    /\ result = Mul(2, Mul(Var, int64))

\* C7 as stated: dimension shapes whose elements are not all equal but are
\* unifiable by the full unifier unify to N * (k * U) or N * (var * U), U the
\* full unification of the elements.
C7_MergeFullUnifier ==
    (/\ Returned("unite")
     /\ AllDims(dshapes)
     /\ Cardinality(Range(ElementsOf(dshapes))) > 1
     /\ IsShape(unite(ElementsOf(dshapes))))
    => result = Mul(Len(dshapes),
                    Mul(MergedCount(dshapes), subshape0(unite(ElementsOf(dshapes)))))

\* C7 amended: dimension-merge unifies the element shapes by
\* identical-unification only: for dimension shapes whose elements are not
\* all equal it reports no result, so the column unifier returns the raw
\* input list and the unifier ending in Tuple returns the Tuple of the inputs.
C7_MergeAmended ==
    (/\ pc = "ready"
     /\ AllDims(dshapes)
     /\ Cardinality(Range(ElementsOf(dshapes))) > 1)
    => /\ op = "unite_merge_dimensions" => result = None
       /\ op = "unite" => result = PyList(dshapes)
       /\ op = "unite_types" => IsTupleOf(result, dshapes)

C7_Witness ==
    /\ Returned("unite")
    /\ dshapes = <<Mul(1, int32), Mul(2, int64)>>
    /\ result = PyList(<<Mul(1, int32), Mul(2, int64)>>)

\* C8 as stated: unify([unify(S)]) is structurally equal to unify(S).
C8_Idempotent ==
    (pc = "ready" /\ op \in {"reunite", "reunite_types"}) => result = prev

\* C8 amended: when unify(S) is a shape, unify([unify(S)]) is 1 * unify(S):
\* re-unification adds one leading dimension of count 1.
C8_ReuniteAmended ==
    (pc = "ready" /\ op \in {"reunite", "reunite_types"} /\ IsShape(prev))
    => result = [prev EXCEPT !.dims = <<1>> \o prev.dims]

C8_Witness ==
    /\ Returned("reunite")
    /\ prev = Mul(3, real)
    /\ result = Mul(1, Mul(3, real))

\* C9: every Record discover produces lists each key once in ascending order,
\* so the result is the same for every insertion order of the keys; a single
\* mapping gives the Record of its keys, and N mappings of one key set whose
\* columns unify give N * Record with the unified column shape at each key.
C9_RecordOrder ==
    (Returned("discover") /\ IsShape(result))
    => /\ RecordsSorted(result)
       /\ result = discover(Canon(seq))
       /\ seq.type = "dict" =>
            /\ result.tag = "record"
            /\ result.dims = <<>>
            /\ Len(result.args) = Cardinality(Keys(seq))
            /\ {result.args[j].key : j \in 1..Len(result.args)} = Keys(seq)
            /\ \A j \in 1..Len(result.args) :
                result.args[j].shape = discover(Lookup(seq, result.args[j].key))
       /\ (IsRecords(seq)
           /\ \A k \in Keys(seq.items[1].val) : IsShape(KeyColumn(seq, k))) =>
            /\ result.tag = "record"
            /\ result.dims = <<Len(seq.items)>>
            /\ Len(result.args) = Cardinality(Keys(seq.items[1].val))
            /\ {result.args[j].key : j \in 1..Len(result.args)} = Keys(seq.items[1].val)
            /\ \A j \in 1..Len(result.args) :
                result.args[j].shape = KeyColumn(seq, result.args[j].key)

C9_Witness ==
    /\ Returned("discover")
    /\ seq = PySeq("list",
                <<PyDict(<< <<2, None_>>, <<1, Int1>> >>),
                  PyDict(<< <<1, Int1>>, <<2, Int1>> >>)>>)
    /\ result = Mul(2, Record(<< <<1, int64>>, <<2, Option(int64)>> >>))

\* C10 as stated: for every non-empty set of kinds of the graph,
\* lowest_common_dshape returns, under every topological order _toposort can
\* cache, the unique most specific member of the intersection of the
\* reachable sets; it is in every input's reachable set and is never Null.
C10_OrderIndependentNeverNull ==
    Returned("lowest_common_dshape")
    => /\ Least(Targets(Range(dshapes))) = {result}
       /\ \A k \in Range(dshapes) : CanWiden(k, result)
       /\ result # null

\* C10 amended: as stated, except that the returned kind is Null exactly when
\* Null is the only input kind.
C10_OrderIndependent ==
    Returned("lowest_common_dshape")
    => /\ Least(Targets(Range(dshapes))) = {result}
       /\ \A k \in Range(dshapes) : CanWiden(k, result)
       /\ result = null <=> Range(dshapes) = {null}

C10_Witness ==
    /\ Returned("lowest_common_dshape")
    /\ toposorted # _toposort
    /\ dshapes = <<null>>
    /\ result = null

====
